---- MODULE Spec2Model ----
(***************************************************************************)
(* Model of the BoeBot rescue controller (Webots - Version/boebot_rescue.c) *)
(*                                                                         *)
(* One control-loop iteration ("tick") is modelled by the steps of the     *)
(* loop body in program order: StepBegin, ReadSensor (one iteration of the *)
(* sensor loop), ReadTilt, DetermineState, ExecuteActions, DebugOutput.     *)
(* The location "debug" is the point after the motor velocities of the     *)
(* tick have been commanded, where the locals of the tick are still live:  *)
(* properties of "a tick" are stated there.                                *)
(*                                                                         *)
(* Units: distances in centimetres (0.3 m = 30), accelerations in tenths   *)
(* of m/s^2 (3.5 = 35), wheel speeds in rad/s.                             *)
(***************************************************************************)
EXTENDS Integers, Sequences, FiniteSets

\* ---- program constants ----
FORWARD_SPEED == 5
TURN_SPEED == 4
AID_DEPLOY_DURATION == 50
OBSTACLE_DISTANCE_THRESHOLD == 30
TILT_THRESHOLD == 35
SURVIVOR_DETECTION_RANGE == 40
SURVIVOR_OBJECT_NAME == "SurvivorObstacle"
NO_READING == 99900

\* ---- RobotState ----
SEARCHING == "SEARCHING"
AVOIDING_OBSTACLE == "AVOIDING_OBSTACLE"
DEPLOYING_AID == "DEPLOYING_AID"
ROBOT_TILTED == "ROBOT_TILTED"
RobotState == {SEARCHING, AVOIDING_OBSTACLE, DEPLOYING_AID, ROBOT_TILTED}

\* ---- bounds of the model ----
MaxAbsent == 1      \* at most this many devices are missing from the robot
MaxObjects == 2     \* recognized objects per sensor and tick
MaxCount == 2       \* the history counters saturate here
DetectRun == 10     \* length of the detection run of the 10-tick scenario

\* period of the LED blink pattern (aid_deploy_counter % 4)
BlinkPeriod == 4

\* ---- inputs ----
DeviceNames == {"left_motor", "right_motor", "ds_front", "ds_left", "ds_right",
                "accelerometer", "emitter", "left_led", "right_led"}
DeviceConfigs == {t \in [DeviceNames -> BOOLEAN] :
                    Cardinality({d \in DeviceNames : ~t[d]}) <= MaxAbsent}
SensorName(i) == <<"ds_front", "ds_left", "ds_right">>[i + 1]

\* a recognized node: a null reference, a node whose name field is
\* unreadable (NULL string), or a node with a name
NullNode == [null |-> TRUE, named |-> FALSE, name |-> ""]
Unnamed == [null |-> FALSE, named |-> FALSE, name |-> ""]
Named(n) == [null |-> FALSE, named |-> TRUE, name |-> n]
NodePool == {NullNode, Unnamed, Named(SURVIVOR_OBJECT_NAME), Named("Rock")}
RECURSIVE SeqsUpTo(_, _)
SeqsUpTo(S, n) == IF n = 0 THEN {<< >>}
                  ELSE LET shorter == SeqsUpTo(S, n - 1)
                       IN shorter \cup {Append(s, x) : s \in {t \in shorter : Len(t) = n - 1}, x \in S}
ObjectLists == SeqsUpTo(NodePool, MaxObjects)
\* below the obstacle threshold, on it (inside the survivor range), on the
\* survivor range
DistanceReadings == {20, 30, 40}
AccelReadings == {-40, 0, 35, 40}

Min(a, b) == IF a < b THEN a ELSE b
RECURSIVE SumSeq(_)
SumSeq(s) == IF s = << >> THEN 0 ELSE Head(s) + SumSeq(Tail(s))
\* the last n elements of s
LastN(s, n) == IF Len(s) <= n THEN s ELSE SubSeq(s, Len(s) - n + 1, Len(s))
Abs(x) == IF x < 0 THEN -x ELSE x

VARIABLES
  pc,                           \* position of the program
  tag,                          \* device handles: TRUE when the device was found
  exit_status,                  \* return value of main, -1 while running
  current_state,
  aid_deploy_counter,
  \* locals of one loop iteration
  i,
  ds_values,
  survivor_detected_this_step,
  tilted,
  actively_deploying_aid,
  left_speed,
  right_speed,
  \* devices
  left_velocity, right_velocity, \* last velocity commanded to each motor
  velocity_commands,             \* wb_motor_set_velocity calls on both motors, saturating
  left_led_on, right_led_on,
  sent,                          \* wb_emitter_send calls of the current tick
  \* history of the run
  armed,                         \* the timer was armed on the current tick
  state0, counter0,              \* current_state and aid_deploy_counter at tick start
  ticks,                         \* ticks executed, saturating
  armsInEpisode, sendsInEpisode, \* within the current run of survivor-detected ticks
  armsInRun, sendsInRun,         \* within the current run of DEPLOYING_AID ticks
  sinceArm,                      \* ticks since the timer was last armed
  detectStreak,                  \* consecutive survivor-detected ticks from the arming tick on,
                                 \* DetectRun + 1 for any longer run
  armGap,                        \* on an arming tick: ticks since the previous arming,
                                 \* NotRecently for more or for none; 0 on other ticks
  matchSeen,                     \* some sensor read on this tick was in range and had a
                                 \* survivor anywhere in its object list
  hitIndex,                      \* position in its list of the object that set
                                 \* survivor_detected_this_step, 0 without detection
  ledWindow                      \* left LED values of the last BlinkPeriod ticks of the
                                 \* current run of DEPLOYING_AID ticks

locals == <<i, ds_values, survivor_detected_this_step, tilted, actively_deploying_aid,
            left_speed, right_speed>>
devices == <<left_velocity, right_velocity, velocity_commands, left_led_on, right_led_on, sent>>
history == <<armed, state0, counter0, ticks, armsInEpisode, sendsInEpisode, armsInRun,
             sendsInRun, sinceArm, detectStreak, armGap, matchSeen, hitIndex, ledWindow>>
vars == <<pc, tag, exit_status, current_state, aid_deploy_counter, locals, devices, history>>

NotRecently == AID_DEPLOY_DURATION + 1
\* variant: the readings start at 0 instead of the sentinel
NoReadings_Zero == [k \in 0..2 |-> 0]

\* initial value of ds_values in every tick
NoReadings == [k \in 0..2 |-> NO_READING]

\* ---- pure parts of the program ----

\* is_survivor(node)
is_survivor(node) ==
  IF node.null THEN FALSE
  ELSE node.named /\ node.name = SURVIVOR_OBJECT_NAME

\* variant: the inner loop is left after its first object
ScanObjects_FirstOnly(objects, j, value) ==
  IF j > Len(objects) THEN FALSE
  ELSE is_survivor(objects[j]) /\ value < SURVIVOR_DETECTION_RANGE

\* the inner loop over the recognized objects of one sensor: TRUE when it
\* leaves through the break after setting survivor_detected_this_step
RECURSIVE ScanObjects(_, _, _)
ScanObjects(objects, j, value) ==
  IF j > Len(objects) THEN FALSE
  ELSE IF is_survivor(objects[j]) /\ value < SURVIVOR_DETECTION_RANGE THEN TRUE
  ELSE ScanObjects(objects, j + 1, value)

\* value of j at the break of the inner loop, 0 when the loop runs to its end
RECURSIVE HitIndex(_, _, _)
HitIndex(objects, j, value) ==
  IF j > Len(objects) THEN 0
  ELSE IF is_survivor(objects[j]) /\ value < SURVIVOR_DETECTION_RANGE THEN j
  ELSE HitIndex(objects, j + 1, value)

\* tilt test on the first two axes of the accelerometer
IsTilted(a0, a1) == Abs(a0) > TILT_THRESHOLD \/ Abs(a1) > TILT_THRESHOLD

\* variant: the decrement is not guarded by the counter being positive
DecrementTimer_Unguarded(c) == c - 1

\* timer logic: the counter after the decrement
DecrementTimer(c) == IF c > 0 THEN c - 1 ELSE c

\* variant: the tick on which the counter reaches 0 is forced as well
TimerForces_UntilZero(c) == c > 0

\* timer logic: the tick is forced to DEPLOYING_AID
TimerForces(c) == c > 0 /\ c - 1 # 0

\* variant: level-triggered, the current state is not consulted
SurvivorEdge_Level(cur, forced, tilt, surv) ==
  ~forced /\ ~tilt /\ surv

\* the survivor branch arms the timer and emits
SurvivorEdge(cur, forced, tilt, surv) ==
  ~forced /\ ~tilt /\ surv /\ cur # DEPLOYING_AID

\* variant: the survivor branch arms the timer but leaves next_state alone
NextState_EdgeKeepsState(cur, forced, tilt, surv, front) ==
  IF forced THEN DEPLOYING_AID
  ELSE IF tilt THEN ROBOT_TILTED
  ELSE IF surv THEN cur
  ELSE IF front < OBSTACLE_DISTANCE_THRESHOLD THEN AVOIDING_OBSTACLE
  ELSE SEARCHING

\* variant: the tilt trigger is evaluated on forced ticks too
NextState_TiltAlways(cur, forced, tilt, surv, front) ==
  IF tilt THEN ROBOT_TILTED
  ELSE IF forced THEN DEPLOYING_AID
  ELSE IF surv THEN (IF cur # DEPLOYING_AID THEN DEPLOYING_AID ELSE cur)
  ELSE IF front < OBSTACLE_DISTANCE_THRESHOLD THEN AVOIDING_OBSTACLE
  ELSE SEARCHING

\* variant: the survivor trigger has priority over the tilt trigger
NextState_SurvivorFirst(cur, forced, tilt, surv, front) ==
  IF forced THEN DEPLOYING_AID
  ELSE IF surv THEN (IF cur # DEPLOYING_AID THEN DEPLOYING_AID ELSE cur)
  ELSE IF tilt THEN ROBOT_TILTED
  ELSE IF front < OBSTACLE_DISTANCE_THRESHOLD THEN AVOIDING_OBSTACLE
  ELSE SEARCHING

\* variant: a front reading equal to the threshold counts as an obstacle
NextState_ObstacleInclusive(cur, forced, tilt, surv, front) ==
  IF forced THEN DEPLOYING_AID
  ELSE IF tilt THEN ROBOT_TILTED
  ELSE IF surv THEN (IF cur # DEPLOYING_AID THEN DEPLOYING_AID ELSE cur)
  ELSE IF front <= OBSTACLE_DISTANCE_THRESHOLD THEN AVOIDING_OBSTACLE
  ELSE SEARCHING

\* value of next_state at the end of section 2
NextState(cur, forced, tilt, surv, front) ==
  IF forced THEN DEPLOYING_AID
  ELSE IF tilt THEN ROBOT_TILTED
  ELSE IF surv THEN (IF cur # DEPLOYING_AID THEN DEPLOYING_AID ELSE cur)
  ELSE IF front < OBSTACLE_DISTANCE_THRESHOLD THEN AVOIDING_OBSTACLE
  ELSE SEARCHING

\* variant: the test of the emitter handle is inverted
EmitterSends_Inverted(edge, emitter) == IF edge /\ ~emitter THEN 1 ELSE 0

\* variant: the emitter handle is not tested before sending
EmitterSends_Unchecked(edge, emitter) == IF edge THEN 1 ELSE 0

\* number of wb_emitter_send calls of the survivor branch
EmitterSends(edge, emitter) == IF edge /\ emitter THEN 1 ELSE 0

\* variant: the ROBOT_TILTED case is missing and falls to the default
LeftSpeed_NoTiltCase(state, ds) ==
  CASE state = DEPLOYING_AID -> 0
    [] state = AVOIDING_OBSTACLE -> IF ds[1] < ds[2] THEN TURN_SPEED ELSE -TURN_SPEED
    [] OTHER -> FORWARD_SPEED

\* variant: the comparison of the side readings is reversed
LeftSpeed_Reversed(state, ds) ==
  CASE state = ROBOT_TILTED -> 0
    [] state = DEPLOYING_AID -> 0
    [] state = AVOIDING_OBSTACLE -> IF ds[1] > ds[2] THEN TURN_SPEED ELSE -TURN_SPEED
    [] OTHER -> FORWARD_SPEED

\* the switch on current_state: wheel speeds
LeftSpeed(state, ds) ==
  CASE state = ROBOT_TILTED -> 0
    [] state = DEPLOYING_AID -> 0
    [] state = AVOIDING_OBSTACLE -> IF ds[1] < ds[2] THEN TURN_SPEED ELSE -TURN_SPEED
    [] OTHER -> FORWARD_SPEED

\* variant: the DEPLOYING_AID case falls through into AVOIDING_OBSTACLE
RightSpeed_Fallthrough(state, ds) ==
  CASE state = ROBOT_TILTED -> 0
    [] state \in {DEPLOYING_AID, AVOIDING_OBSTACLE} ->
         IF ds[1] < ds[2] THEN -TURN_SPEED ELSE TURN_SPEED
    [] OTHER -> FORWARD_SPEED

RightSpeed(state, ds) ==
  CASE state = ROBOT_TILTED -> 0
    [] state = DEPLOYING_AID -> 0
    [] state = AVOIDING_OBSTACLE -> IF ds[1] < ds[2] THEN -TURN_SPEED ELSE TURN_SPEED
    [] OTHER -> FORWARD_SPEED

\* the switch on current_state: value of both LEDs after the reset to 0
LedValue(state, counter) ==
  CASE state = ROBOT_TILTED -> 1
    [] state = DEPLOYING_AID -> IF counter % 4 < 2 THEN 1 ELSE 0
    [] OTHER -> 0

\* variant: the program gives up only when both motors are missing
MotorsMissing_Both(left, right) == ~left /\ ~right

\* the test of the motor handles before the setup
MotorsMissing(left, right) == ~left \/ ~right

\* ---- the program ----

Init ==
  /\ pc = "start"
  /\ tag \in DeviceConfigs
  /\ exit_status = -1
  /\ current_state = SEARCHING
  /\ aid_deploy_counter = 0
  /\ i = 0
  /\ ds_values = NoReadings
  /\ survivor_detected_this_step = FALSE
  /\ tilted = FALSE
  /\ actively_deploying_aid = FALSE
  /\ left_speed = 0
  /\ right_speed = 0
  /\ left_velocity = 0
  /\ right_velocity = 0
  /\ velocity_commands = 0
  /\ left_led_on = 0
  /\ right_led_on = 0
  /\ sent = 0
  /\ armed = FALSE
  /\ state0 = SEARCHING
  /\ counter0 = 0
  /\ ticks = 0
  /\ armsInEpisode = 0
  /\ sendsInEpisode = 0
  /\ armsInRun = 0
  /\ sendsInRun = 0
  /\ sinceArm = NotRecently
  /\ detectStreak = 0
  /\ ledWindow = << >>
  /\ matchSeen = FALSE
  /\ armGap = 0
  /\ hitIndex = 0

\* device setup before the loop: a missing wheel motor ends the program
Setup ==
  /\ pc = "start"
  /\ IF MotorsMissing(tag.left_motor, tag.right_motor)
       THEN /\ pc' = "exited"
            /\ exit_status' = 1
            /\ UNCHANGED <<left_velocity, right_velocity, velocity_commands>>
       ELSE /\ pc' = "step"
            /\ exit_status' = exit_status
            /\ left_velocity' = 0
            /\ right_velocity' = 0
            /\ velocity_commands' = Min(velocity_commands + 1, MaxCount)
  /\ UNCHANGED <<tag, current_state, aid_deploy_counter, locals, left_led_on, right_led_on,
                 sent, history>>

\* wb_robot_step returned -1: leave the loop
Cleanup ==
  /\ pc = "step"
  /\ pc' = "exited"
  /\ exit_status' = 0
  /\ UNCHANGED <<tag, current_state, aid_deploy_counter, locals, devices, history>>

\* wb_robot_step returned: enter the loop body and initialise its locals
StepBegin ==
  /\ pc = "step"
  /\ pc' = "read"
  /\ i' = 0
  /\ ds_values' = NoReadings
  /\ survivor_detected_this_step' = FALSE
  /\ tilted' = FALSE
  /\ actively_deploying_aid' = FALSE
  /\ left_speed' = 0
  /\ right_speed' = 0
  /\ sent' = 0
  /\ armed' = FALSE
  /\ state0' = current_state
  /\ counter0' = aid_deploy_counter
  /\ matchSeen' = FALSE
  /\ armGap' = 0
  /\ hitIndex' = 0
  /\ ticks' = Min(ticks + 1, MaxCount)
  /\ UNCHANGED <<tag, exit_status, current_state, aid_deploy_counter,
                 left_velocity, right_velocity, velocity_commands, left_led_on, right_led_on,
                 armsInEpisode, sendsInEpisode, armsInRun, sendsInRun, sinceArm, detectStreak,
                 ledWindow>>

\* one iteration of the loop over the distance sensors
ReadSensor ==
  /\ pc = "read"
  /\ \E value \in DistanceReadings, objects \in ObjectLists :
       LET present == tag[SensorName(i)]
           hit == present /\ ScanObjects(objects, 1, value)
       IN /\ ds_values' = IF present THEN [ds_values EXCEPT ![i] = value] ELSE ds_values
          /\ survivor_detected_this_step' = hit
          /\ IF hit \/ i = 2
               THEN pc' = "tilt" /\ i' = i
               ELSE pc' = "read" /\ i' = i + 1
          /\ matchSeen' = (matchSeen \/ (/\ present
                                         /\ value < SURVIVOR_DETECTION_RANGE
                                         /\ \E j \in 1..Len(objects) : is_survivor(objects[j])))
          /\ hitIndex' = IF present THEN HitIndex(objects, 1, value) ELSE 0
  /\ UNCHANGED <<tag, exit_status, current_state, aid_deploy_counter, tilted,
                 actively_deploying_aid, left_speed, right_speed, devices,
                 armed, state0, counter0, ticks, armsInEpisode, sendsInEpisode, armsInRun,
                 sendsInRun, sinceArm, detectStreak, armGap, ledWindow>>

\* read the accelerometer
ReadTilt ==
  /\ pc = "tilt"
  /\ pc' = "decide"
  /\ \E a0 \in AccelReadings, a1 \in AccelReadings :
       tilted' = (tag.accelerometer /\ IsTilted(a0, a1))
  /\ UNCHANGED <<tag, exit_status, current_state, aid_deploy_counter, i, ds_values,
                 survivor_detected_this_step, actively_deploying_aid, left_speed, right_speed,
                 devices, history>>

\* section 2 of the loop body: timer logic and event triggers
DetermineState ==
  /\ pc = "decide"
  /\ pc' = "act"
  /\ LET forced == TimerForces(aid_deploy_counter)
         edge == SurvivorEdge(current_state, forced, tilted, survivor_detected_this_step)
         next == NextState(current_state, forced, tilted, survivor_detected_this_step, ds_values[0])
         sends == EmitterSends(edge, tag.emitter)
     IN /\ actively_deploying_aid' = forced
        /\ aid_deploy_counter' = IF edge THEN AID_DEPLOY_DURATION
                                 ELSE DecrementTimer(aid_deploy_counter)
        /\ current_state' = next
        /\ sent' = sends
        /\ armed' = edge
        /\ armsInEpisode' = IF ~survivor_detected_this_step THEN 0
                            ELSE Min(armsInEpisode + (IF edge THEN 1 ELSE 0), MaxCount)
        /\ sendsInEpisode' = IF ~survivor_detected_this_step THEN 0
                             ELSE Min(sendsInEpisode + sends, MaxCount)
        /\ armsInRun' = IF next # DEPLOYING_AID THEN 0
                        ELSE Min((IF current_state = DEPLOYING_AID THEN armsInRun ELSE 0)
                                 + (IF edge THEN 1 ELSE 0), MaxCount)
        /\ sendsInRun' = IF next # DEPLOYING_AID THEN 0
                         ELSE Min((IF current_state = DEPLOYING_AID THEN sendsInRun ELSE 0)
                                  + sends, MaxCount)
        /\ sinceArm' = IF edge THEN 0 ELSE Min(sinceArm + 1, NotRecently)
        /\ armGap' = IF edge THEN Min(sinceArm + 1, NotRecently) ELSE 0
        /\ detectStreak' = IF edge THEN 1
                           ELSE IF survivor_detected_this_step /\ detectStreak > 0
                                  THEN Min(detectStreak + 1, DetectRun + 1)
                           ELSE 0
  /\ UNCHANGED <<tag, exit_status, i, ds_values, survivor_detected_this_step, tilted,
                 left_speed, right_speed, left_velocity, right_velocity, velocity_commands,
                 left_led_on, right_led_on, state0, counter0, ticks, matchSeen, hitIndex,
                 ledWindow>>

\* sections 3 and 4: LEDs, wheel speeds for the state, motor commands
ExecuteActions ==
  /\ pc = "act"
  /\ pc' = "debug"
  /\ left_speed' = LeftSpeed(current_state, ds_values)
  /\ right_speed' = RightSpeed(current_state, ds_values)
  /\ left_led_on' = IF tag.left_led THEN LedValue(current_state, aid_deploy_counter) ELSE left_led_on
  /\ right_led_on' = IF tag.right_led THEN LedValue(current_state, aid_deploy_counter) ELSE right_led_on
  /\ left_velocity' = left_speed'
  /\ right_velocity' = right_speed'
  /\ velocity_commands' = Min(velocity_commands + 1, MaxCount)
  /\ ledWindow' = IF current_state = DEPLOYING_AID
                    THEN LastN(Append(ledWindow, left_led_on'), BlinkPeriod)
                    ELSE << >>
  /\ UNCHANGED <<tag, exit_status, current_state, aid_deploy_counter, i, ds_values,
                 survivor_detected_this_step, tilted, actively_deploying_aid, sent,
                 armed, state0, counter0, ticks, armsInEpisode, sendsInEpisode, armsInRun,
                 sendsInRun, sinceArm, detectStreak, armGap, matchSeen, hitIndex>>

\* section 5 and the end of the loop body: the locals of the tick go away
DebugOutput ==
  /\ pc = "debug"
  /\ pc' = "step"
  /\ i' = 0
  /\ ds_values' = NoReadings
  /\ survivor_detected_this_step' = FALSE
  /\ tilted' = FALSE
  /\ actively_deploying_aid' = FALSE
  /\ left_speed' = 0
  /\ right_speed' = 0
  /\ sent' = 0
  /\ armed' = FALSE
  /\ state0' = current_state
  /\ counter0' = aid_deploy_counter
  /\ matchSeen' = FALSE
  /\ armGap' = 0
  /\ hitIndex' = 0
  /\ UNCHANGED <<tag, exit_status, current_state, aid_deploy_counter,
                 left_velocity, right_velocity, velocity_commands, left_led_on, right_led_on,
                 ticks, armsInEpisode, sendsInEpisode, armsInRun, sendsInRun, sinceArm,
                 detectStreak, ledWindow>>

Next ==
  \/ Setup
  \/ Cleanup
  \/ StepBegin
  \/ ReadSensor
  \/ ReadTilt
  \/ DetermineState
  \/ ExecuteActions
  \/ DebugOutput

Spec == Init /\ [][Next]_vars

\* ---- shape of the state ----
TypeOK ==
  /\ pc \in {"start", "step", "read", "tilt", "decide", "act", "debug", "exited"}
  /\ current_state \in RobotState
  /\ aid_deploy_counter \in Int
  /\ i \in 0..2
  /\ sent \in 0..1

\* the tick has been decided and its motor commands issued
TickDone == pc = "debug"

\* ---- claims ----

\* C1: within one maximal run of consecutive ticks on which
\* survivor_detected is true, the timer is armed at most once and the
\* message is sent at most once.
C1_OncePerDetectionEpisode ==
  armsInEpisode <= 1 /\ sendsInEpisode <= 1

\* C2 as stated: in every run of DEPLOYING_AID ticks the timer is armed
\* exactly once and the message sent exactly once, both on the first tick of
\* the run, whether or not the emitter exists.
C2_ExactlyOneSendPerRun ==
  (TickDone /\ current_state = DEPLOYING_AID) =>
     /\ armsInRun = 1
     /\ sendsInRun = 1
     /\ (armed <=> state0 # DEPLOYING_AID)
     /\ (sent = 1 <=> state0 # DEPLOYING_AID)

\* C2 amended: in every run of DEPLOYING_AID ticks the timer is armed exactly
\* once, on the first tick of the run; the message is sent exactly once, on
\* that tick, when the emitter is present and never when it is absent; a tick
\* with survivor_detected true while the state is already DEPLOYING_AID
\* neither arms nor sends; 10 consecutive detections from the arming tick on
\* give one send (none without emitter).
C2_EdgeTriggered ==
  /\ (TickDone /\ current_state = DEPLOYING_AID) =>
        /\ armsInRun = 1
        /\ sendsInRun = (IF tag.emitter THEN 1 ELSE 0)
        /\ (armed <=> state0 # DEPLOYING_AID)
        /\ (sent = 1 <=> (state0 # DEPLOYING_AID /\ tag.emitter))
  /\ (TickDone /\ survivor_detected_this_step /\ state0 = DEPLOYING_AID) =>
        (~armed /\ sent = 0 /\ aid_deploy_counter = DecrementTimer(counter0))
  /\ (TickDone /\ detectStreak = DetectRun) =>
        (current_state = DEPLOYING_AID /\ sendsInRun = (IF tag.emitter THEN 1 ELSE 0))

C2_Witness ==
  /\ TickDone
  /\ detectStreak = DetectRun
  /\ survivor_detected_this_step
  /\ state0 = DEPLOYING_AID
  /\ tag.emitter
  /\ sendsInRun = 1

\* C3: whenever the aid-deploy timer is greater than 0 the current state is
\* DEPLOYING_AID.
C3_TimerImpliesDeploying ==
  aid_deploy_counter > 0 => current_state = DEPLOYING_AID

C3_Witness ==
  /\ TickDone
  /\ aid_deploy_counter > 0
  /\ current_state = DEPLOYING_AID
  /\ tilted
  /\ ds_values[0] < OBSTACLE_DISTANCE_THRESHOLD

\* C4: 0 <= timer <= AID_DEPLOY_DURATION in every state, and the timer is
\* armed only on ticks that started with the timer at 0.
C4_TimerRange ==
  /\ aid_deploy_counter >= 0
  /\ aid_deploy_counter <= AID_DEPLOY_DURATION
  /\ (armed => counter0 = 0)

C4_Witness ==
  /\ TickDone
  /\ sinceArm = AID_DEPLOY_DURATION
  /\ counter0 = 1
  /\ aid_deploy_counter = 0

\* C5: DEPLOYING_AID is never the resolved state of a tick whose countdown
\* is 0.
C5_ZeroReleasesDeploying ==
  (TickDone /\ current_state = DEPLOYING_AID) => aid_deploy_counter > 0

\* C6: after the timer is armed on tick T the state is DEPLOYING_AID on the
\* ticks T .. T+D-1 with the counter going down by one per tick, the counter
\* is 0 on tick T+D, and tick T+D is evaluated by the event rules: without
\* tilt and survivor it yields AVOIDING_OBSTACLE or SEARCHING.
C6_DeployLastsExactlyD ==
  TickDone =>
     /\ (sinceArm < AID_DEPLOY_DURATION =>
            /\ current_state = DEPLOYING_AID
            /\ aid_deploy_counter = AID_DEPLOY_DURATION - sinceArm
            /\ (sinceArm > 0 => actively_deploying_aid))
     /\ (sinceArm = AID_DEPLOY_DURATION =>
            /\ counter0 = 1
            /\ aid_deploy_counter = 0
            /\ ~actively_deploying_aid
            /\ ((~tilted /\ ~survivor_detected_this_step) =>
                   current_state \in {AVOIDING_OBSTACLE, SEARCHING}))

C6_Witness ==
  /\ TickDone
  /\ sinceArm = AID_DEPLOY_DURATION
  /\ ~tilted
  /\ ~survivor_detected_this_step
  /\ current_state = AVOIDING_OBSTACLE

\* C7: on a tick whose timer is still positive after the decrement the state
\* is DEPLOYING_AID whatever the inputs are, the timer goes down by exactly
\* one and no message is sent.
C7_ForcedTickSkipsEvents ==
  (TickDone /\ counter0 > 1) =>
     /\ current_state = DEPLOYING_AID
     /\ aid_deploy_counter = counter0 - 1
     /\ sent = 0
     /\ ~armed

C7_Witness ==
  /\ TickDone
  /\ counter0 > 1
  /\ tilted
  /\ survivor_detected_this_step
  /\ current_state = DEPLOYING_AID

\* C8: on a tick that is not forced by the timer a tilted reading gives
\* ROBOT_TILTED whatever the prior state, the survivor flag and the front
\* reading are; both wheels are commanded to 0, the timer is not armed and no
\* message is sent.
C8_TiltOverridesEvents ==
  (TickDone /\ ~actively_deploying_aid /\ tilted) =>
     /\ current_state = ROBOT_TILTED
     /\ left_speed = 0 /\ right_speed = 0
     /\ left_velocity = 0 /\ right_velocity = 0
     /\ ~armed
     /\ aid_deploy_counter = 0
     /\ sent = 0

C8_Witness ==
  /\ TickDone
  /\ ~actively_deploying_aid
  /\ tilted
  /\ survivor_detected_this_step
  /\ ds_values[0] < OBSTACLE_DISTANCE_THRESHOLD
  /\ state0 = AVOIDING_OBSTACLE
  /\ current_state = ROBOT_TILTED

\* C9: on a tick that is neither forced nor tilted, with survivor_detected
\* true and a current state other than DEPLOYING_AID, the state becomes
\* DEPLOYING_AID, the timer is AID_DEPLOY_DURATION and, with an emitter,
\* exactly one message is sent.
C9_DetectionEdgeArms ==
  (TickDone /\ ~actively_deploying_aid /\ ~tilted /\ survivor_detected_this_step
     /\ state0 # DEPLOYING_AID) =>
     /\ current_state = DEPLOYING_AID
     /\ aid_deploy_counter = AID_DEPLOY_DURATION
     /\ armed
     /\ (tag.emitter => sent = 1)

C9_Witness ==
  /\ TickDone
  /\ ~actively_deploying_aid
  /\ ~tilted
  /\ survivor_detected_this_step
  /\ state0 = ROBOT_TILTED
  /\ tag.emitter
  /\ sent = 1
  /\ aid_deploy_counter = AID_DEPLOY_DURATION

\* C10: in AVOIDING_OBSTACLE with equal left and right readings the robot
\* turns right: left wheel +TURN_SPEED, right wheel -TURN_SPEED.
C10_TieTurnsRight ==
  (TickDone /\ current_state = AVOIDING_OBSTACLE /\ ds_values[1] = ds_values[2]) =>
     (left_velocity = TURN_SPEED /\ right_velocity = -TURN_SPEED)

\* C11: in AVOIDING_OBSTACLE with unequal side readings the wheels turn
\* in opposite directions at TURN_SPEED, away from the closer side: left <
\* right gives (+TURN_SPEED, -TURN_SPEED), right < left gives (-TURN_SPEED,
\* +TURN_SPEED).
C11_TurnsAwayFromCloserSide ==
  (TickDone /\ current_state = AVOIDING_OBSTACLE) =>
     /\ (ds_values[1] < ds_values[2] =>
            (left_velocity = TURN_SPEED /\ right_velocity = -TURN_SPEED))
     /\ (ds_values[2] < ds_values[1] =>
            (left_velocity = -TURN_SPEED /\ right_velocity = TURN_SPEED))

C11_Witness ==
  /\ TickDone
  /\ current_state = AVOIDING_OBSTACLE
  /\ ds_values[1] = 20
  /\ ds_values[2] = 40
  /\ left_velocity = TURN_SPEED
  /\ right_velocity = -TURN_SPEED

\* C12: every tick resolves exactly one RobotState; a forced tick resolves
\* DEPLOYING_AID and every other tick the precedence function of the frame:
\* ROBOT_TILTED if tilted, else DEPLOYING_AID if survivor_detected, else
\* AVOIDING_OBSTACLE if front < OBSTACLE_DISTANCE_THRESHOLD, else SEARCHING,
\* whatever the state before the tick was.
C12_PrecedenceFunction ==
  TickDone =>
     /\ current_state \in RobotState
     /\ (actively_deploying_aid => current_state = DEPLOYING_AID)
     /\ (~actively_deploying_aid =>
            current_state =
              (IF tilted THEN ROBOT_TILTED
               ELSE IF survivor_detected_this_step THEN DEPLOYING_AID
               ELSE IF ds_values[0] < OBSTACLE_DISTANCE_THRESHOLD THEN AVOIDING_OBSTACLE
               ELSE SEARCHING))

C12_Witness ==
  /\ TickDone
  /\ ~actively_deploying_aid
  /\ ~tilted
  /\ ~survivor_detected_this_step
  /\ ds_values[0] = OBSTACLE_DISTANCE_THRESHOLD
  /\ state0 = AVOIDING_OBSTACLE
  /\ current_state = SEARCHING

\* C13: the wheel command of a tick depends on the resolved state and the
\* side readings only: (0, 0) in ROBOT_TILTED and DEPLOYING_AID,
\* (FORWARD_SPEED, FORWARD_SPEED) in SEARCHING, opposite signs of TURN_SPEED
\* in AVOIDING_OBSTACLE, whatever the previous state and command were.
C13_CommandFromStateOnly ==
  TickDone =>
     /\ (current_state \in {ROBOT_TILTED, DEPLOYING_AID} =>
            (left_velocity = 0 /\ right_velocity = 0))
     /\ (current_state = SEARCHING =>
            (left_velocity = FORWARD_SPEED /\ right_velocity = FORWARD_SPEED))
     /\ (current_state = AVOIDING_OBSTACLE =>
            /\ left_velocity \in {TURN_SPEED, -TURN_SPEED}
            /\ right_velocity = -left_velocity
            /\ (left_velocity = TURN_SPEED <=> ds_values[1] < ds_values[2]))

C13_Witness ==
  /\ TickDone
  /\ state0 = AVOIDING_OBSTACLE
  /\ current_state = DEPLOYING_AID
  /\ ds_values[1] < ds_values[2]
  /\ left_velocity = 0
  /\ right_velocity = 0

\* C14: while the state is DEPLOYING_AID the indicator lights are on exactly
\* when the countdown value mod 4 is less than 2, and over any 4 consecutive
\* ticks spent in DEPLOYING_AID they are on for exactly 2 ticks.
C14_BlinkTwoOfFour ==
  (TickDone /\ current_state = DEPLOYING_AID) =>
     /\ (tag.left_led => (left_led_on = 1 <=> aid_deploy_counter % BlinkPeriod < 2))
     /\ (tag.right_led => (right_led_on = 1 <=> aid_deploy_counter % BlinkPeriod < 2))
     /\ ((tag.left_led /\ Len(ledWindow) = BlinkPeriod) => SumSeq(ledWindow) = 2)

\* C15: without an emitter a detection edge still sets DEPLOYING_AID and
\* arms the timer to AID_DEPLOY_DURATION; nothing is sent on that tick nor on
\* any later tick of the deployment.
C15_AbsentEmitterCommits ==
  ~tag.emitter =>
     /\ sent = 0
     /\ sendsInRun = 0
     /\ sendsInEpisode = 0
     /\ (TickDone /\ ~actively_deploying_aid /\ ~tilted /\ survivor_detected_this_step
           /\ state0 # DEPLOYING_AID) =>
           (current_state = DEPLOYING_AID /\ aid_deploy_counter = AID_DEPLOY_DURATION /\ armed)

C15_Witness ==
  /\ ~tag.emitter
  /\ TickDone
  /\ current_state = DEPLOYING_AID
  /\ sinceArm = AID_DEPLOY_DURATION - 1
  /\ armsInRun = 1
  /\ sendsInRun = 0

\* C16: a missing device reads as "nothing detected": an absent distance
\* sensor reads NO_READING on every tick and is never the sensor that sets
\* survivor_detected, without front sensor AVOIDING_OBSTACLE is never
\* reached, without accelerometer tilted is never true and ROBOT_TILTED never
\* reached, and none of this ends the program with an error.
C16_AbsentDevicesDegrade ==
  /\ \A k \in 0..2 : ~tag[SensorName(k)] => ds_values[k] = NO_READING
  /\ (survivor_detected_this_step =>
         (tag[SensorName(i)] /\ ds_values[i] < SURVIVOR_DETECTION_RANGE))
  /\ (~tag.ds_front => current_state # AVOIDING_OBSTACLE)
  /\ (~tag.accelerometer => (~tilted /\ current_state # ROBOT_TILTED))
  /\ ((tag.left_motor /\ tag.right_motor) => exit_status # 1)

C16_Witness ==
  /\ TickDone
  /\ ~tag.ds_front
  /\ ds_values[0] = NO_READING
  /\ survivor_detected_this_step
  /\ i = 1
  /\ current_state = DEPLOYING_AID
  /\ ticks = MaxCount

\* C17: with a wheel motor missing the program exits with status 1 before
\* the control loop: no tick runs, no motor velocity is commanded and no
\* message is sent.
C17_MissingMotorIsFatal ==
  (~tag.left_motor \/ ~tag.right_motor) =>
     /\ pc \in {"start", "exited"}
     /\ (pc = "exited" => exit_status = 1)
     /\ ticks = 0
     /\ velocity_commands = 0
     /\ sent = 0
     /\ sendsInRun = 0

C17_Witness ==
  /\ ~tag.right_motor
  /\ tag.left_motor
  /\ pc = "exited"
  /\ exit_status = 1
  /\ velocity_commands = 0

\* C18: survivor_detected_this_step, computed by the first-match scan, is
\* true exactly when some available distance sensor has a reading below
\* SURVIVOR_DETECTION_RANGE and a survivor anywhere in its object list;
\* non-survivors earlier in a list and earlier sensors without a hit do not
\* mask a later match.
C18_ScanIsOrderIndependent ==
  survivor_detected_this_step <=> matchSeen

C18_Witness ==
  /\ TickDone
  /\ survivor_detected_this_step
  /\ matchSeen
  /\ i = 2
  /\ hitIndex = 2

\* C19: two successive armings of the timer, and so two successive sends,
\* are at least AID_DEPLOY_DURATION + 1 ticks apart; a message is only sent
\* on an arming tick.
C19_ArmingsAreSpaced ==
  /\ (armed => armGap >= AID_DEPLOY_DURATION + 1)
  /\ (sent > 0 => armed)

C19_Witness ==
  /\ TickDone
  /\ armed
  /\ sent = 1
  /\ armGap = AID_DEPLOY_DURATION + 1
  /\ armsInEpisode = 2
  /\ state0 = ROBOT_TILTED

\* C20: on every tick on which the tilted flag is true both commanded wheel
\* velocities are 0, on forced ticks (DEPLOYING_AID) and on other ticks
\* (ROBOT_TILTED) alike.
C20_NeverDrivesWhileTilted ==
  (TickDone /\ tilted) =>
     /\ left_velocity = 0
     /\ right_velocity = 0
     /\ current_state = (IF actively_deploying_aid THEN DEPLOYING_AID ELSE ROBOT_TILTED)

C20_Witness ==
  /\ TickDone
  /\ tilted
  /\ actively_deploying_aid
  /\ state0 = DEPLOYING_AID
  /\ ds_values[0] = 40
  /\ left_velocity = 0
  /\ right_velocity = 0

====
